---- MODULE Spec2Model ----
(***************************************************************************)
(* A model of hypothesis_cli.py: the schema loader, the recursive          *)
(* complexity limiter and the orchestration of generation and script       *)
(* validation in main.                                                     *)
(***************************************************************************)
EXTENDS Integers, Sequences, FiniteSets, TLC

(***************************************************************************)
(* JSON values as json.load builds them.  Every value is a record of the   *)
(* same shape; a dict is the sequence of its entries in insertion order    *)
(* (Python dicts keep it), a list the sequence of its elements.            *)
(***************************************************************************)
JNum(n) == [kind |-> "num", num |-> n, str |-> "", items |-> <<>>]
JStr(s) == [kind |-> "str", num |-> 0, str |-> s, items |-> <<>>]
JList(xs) == [kind |-> "list", num |-> 0, str |-> "", items |-> xs]
JDict(es) == [kind |-> "dict", num |-> 0, str |-> "", items |-> es]
Entry(k, v) == [key |-> k, val |-> v]
\* true / false (bool is an int for min and for comparison: num is 1 or 0),
\* NaN, Infinity / -Infinity (sign in num) and null, which json.loads accepts
JBool(b) == [kind |-> "bool", num |-> IF b THEN 1 ELSE 0, str |-> "", items |-> <<>>]
JNaN == [kind |-> "nan", num |-> 0, str |-> "", items |-> <<>>]
JInf(sign) == [kind |-> "inf", num |-> sign, str |-> "", items |-> <<>>]
JNull == [kind |-> "null", num |-> 0, str |-> "", items |-> <<>>]

\* The TypeError that min() raises on operands it cannot order.
TypeError == [kind |-> "TypeError", num |-> 0, str |-> "", items |-> <<>>]

HasKey(d, k) == \E i \in 1..Len(d) : d[i].key = k
KeyIndex(d, k) == CHOOSE i \in 1..Len(d) : d[i].key = k
\* dict.get(k, default)
Get(d, k, default) == IF HasKey(d, k) THEN d[KeyIndex(d, k)].val ELSE default
\* the mapping kept as a plain list of pairs: every store appends
PutAppend(d, k, v) == Append(d, Entry(k, v))

\* d[k] = v : an existing key keeps its place, a new key is appended
Put(d, k, v) ==
    IF HasKey(d, k) THEN [d EXCEPT ![KeyIndex(d, k)].val = v]
    ELSE Append(d, Entry(k, v))

DefaultMaxItems == 10
ArrayCeiling == 5
DefaultMaxProperties == 10
ObjectCeiling == 5
DefaultMaxLength == 100
LengthCeiling == 20

\* c < x for an int literal c, as Python orders it: False against NaN
IntLess(c, x) ==
    CASE x.kind \in {"num", "bool"} -> c < x.num
      [] x.kind = "inf" -> x.num > 0
      [] x.kind = "nan" -> FALSE

\* the ceiling stored whatever the existing bound is
PyMinCeiling(x, c) ==
    IF x.kind \in {"num", "bool", "inf", "nan"} THEN JNum(c) ELSE TypeError

\* min(x, c) with c an int literal: x is kept unless c < x; TypeError when
\* x is a str, a list, a dict or None.
PyMin(x, c) ==
    IF x.kind \in {"num", "bool", "inf", "nan"}
    THEN (IF IntLess(c, x) THEN JNum(c) ELSE x)
    ELSE TypeError

\* one type too many in the list of line 37
ScalarTypesWithBoolean == {"string", "number", "integer", "boolean"}

ScalarTypes == {"string", "number", "integer"}

\* The outcome of a call: res is what it returns, or TypeError when it
\* raises; arg is the argument as the call leaves it.  The code rewrites its
\* argument in place, so a call that returns leaves the argument equal to
\* the result, and a call that raises leaves it partly rewritten.
Done(v) == [res |-> v, arg |-> v]
Raising(a) == [res |-> TypeError, arg |-> a]

RECURSIVE LimitCall(_)
RECURSIVE LimitDict(_, _, _)
RECURSIVE LimitList(_, _, _)

\* schema[k] = min(schema.get(k, default), ceiling) on the dict d
SetBound(d, k, default, ceiling) ==
    LET m == PyMin(Get(d.items, k, JNum(default)), ceiling)
    IN  IF m = TypeError THEN Raising(d) ELSE Done(JDict(Put(d.items, k, m)))

\* The body of the loop of lines 32-40 for one (key, value) of the snapshot,
\* on the dict d as mutated so far.  A nested call that raises has already
\* rewritten part of the value, which d still holds.
Visit(d, key, value) ==
    IF key = "type" /\ value = JStr("array") THEN
        SetBound(d, "maxItems", DefaultMaxItems, ArrayCeiling)
    ELSE IF key = "type" /\ value = JStr("object") THEN
        SetBound(d, "maxProperties", DefaultMaxProperties, ObjectCeiling)
    ELSE IF key = "type" /\ value.kind = "str" /\ value.str \in ScalarTypes THEN
        SetBound(d, "maxLength", DefaultMaxLength, LengthCeiling)
    ELSE IF value.kind \in {"dict", "list"} THEN
        LET r == LimitCall(value)
        IN  IF r.res = TypeError THEN Raising(JDict(Put(d.items, key, r.arg)))
            ELSE Done(JDict(Put(d.items, key, r.res)))
    ELSE Done(d)

\* The loop over list(schema.items()): snap is the snapshot taken before
\* the loop, d the dict as mutated so far, i the position in the snapshot.
LimitDict(d, snap, i) ==
    IF i > Len(snap) THEN Done(d)
    ELSE LET v == Visit(d, snap[i].key, snap[i].val)
         IN  IF v.res = TypeError THEN v ELSE LimitDict(v.res, snap, i + 1)

\* [limit_complexity(item) for item in schema]: acc.res is the new list of
\* the results of the elements before position i, acc.arg those elements as
\* the calls left them in the old list; an element that raises ends the walk.
LimitList(xs, i, acc) ==
    IF i > Len(xs) THEN acc
    ELSE LET r == LimitCall(xs[i])
         IN  IF r.res = TypeError
             THEN Raising(JList(Append(acc.arg.items, r.arg)
                                \o SubSeq(xs, i + 1, Len(xs))))
             ELSE LimitList(xs, i + 1,
                            [res |-> JList(Append(acc.res.items, r.res)),
                             arg |-> JList(Append(acc.arg.items, r.arg))])

LimitCall(schema) ==
    IF schema.kind = "dict" THEN LimitDict(schema, schema.items, 1)
    ELSE IF schema.kind = "list" THEN LimitList(schema.items, 1, Done(JList(<<>>)))
    ELSE Done(schema)

\* what limit_complexity(schema) returns, TypeError when it raises
limit_complexity(schema) == LimitCall(schema).res

\* the argument after the call
ArgumentAfter(schema) == LimitCall(schema).arg

(***************************************************************************)
(* The schema trees the limiter is applied to.  A tree is a leaf (a scalar *)
(* or a flat mapping with an optional "type" and an optional bound key)    *)
(* wrapped at most MaxDepth times in a mapping or in a sequence of at most *)
(* MaxListLen elements.                                                    *)
(***************************************************************************)
MaxDepth == 2
MaxListLen == 2

NoType == ""
TypeOpts == {NoType, "array", "object", "string", "number", "integer", "boolean"}
BoundKeys == {"maxItems", "maxProperties", "maxLength"}
BoundVals == {JNum(3), JNum(7), JNum(30), JStr("x"), JNaN, JBool(TRUE)}
Scalars == {JNum(7), JStr("array"), JStr("x")}

TypeEntry(t) == IF t = NoType THEN <<>> ELSE <<Entry("type", JStr(t))>>

Leaves ==
    Scalars
    \cup {JDict(TypeEntry(t)) : t \in TypeOpts}
    \cup {JDict(TypeEntry(t) \o <<Entry(k, v)>>) :
             t \in TypeOpts, k \in BoundKeys, v \in BoundVals}

\* n - 1 scalar elements followed by c
ListEndingIn(c, n) == JList([i \in 1..n |-> IF i = n THEN c ELSE JStr("array")])

\* The ways of nesting a tree c one level deeper: under "items" of a
\* mapping with or without a type, under "items" of a bounded array, as the
\* value of "type", as the value of a bound key the type does not match, and
\* as the last element of a sequence of n.
WrapKinds ==
    {[shape |-> "items", t |-> t, n |-> 0] : t \in {NoType, "array", "object", "string"}}
    \cup {[shape |-> sh, t |-> NoType, n |-> 0] : sh \in {"bounded", "type", "bound"}}
    \cup {[shape |-> "list", t |-> NoType, n |-> n] : n \in 1..MaxListLen}

Wrap(w, c) ==
    CASE w.shape = "items" -> JDict(TypeEntry(w.t) \o <<Entry("items", c)>>)
      [] w.shape = "bounded" ->
            JDict(<<Entry("type", JStr("array")), Entry("maxItems", JNum(30)),
                    Entry("items", c)>>)
      [] w.shape = "type" -> JDict(<<Entry("type", c)>>)
      [] w.shape = "bound" ->
            JDict(<<Entry("type", JStr("string")), Entry("maxItems", c)>>)
      [] w.shape = "list" -> ListEndingIn(c, w.n)

RECURSIVE Trees(_)
Trees(d) ==
    IF d = 0 THEN Leaves
    ELSE LET prev == Trees(d - 1) IN prev \cup {Wrap(w, c) : w \in WrapKinds, c \in prev}

Unset == [kind |-> "unset", num |-> 0, str |-> "", items |-> <<>>]

\* schema is the object the limiter is called on, rewritten in place by
\* each call; tree is a copy of it taken before the first call, once a copy
\* of what the first call returned, twice what the second call returned.
VARIABLES tree, schema, once, twice, stage

lvars == <<tree, schema, once, twice, stage>>


(***************************************************************************)
(* The command line program.  A run is one execution of main; Procs are    *)
(* the runs that may share a working directory.                            *)
(***************************************************************************)
Procs == {1, 2}

MaxNum == 2
MaxSpace == 2

\* What open(schema_input, 'r') finds at the path named by the argument.
\* deep_file holds a document nested beyond the interpreter's recursion
\* limit, undecodable_file bytes that are not UTF-8; embedded_null is an
\* argument with a NUL character, which open rejects before looking.
PathStates ==
    {"absent", "valid_file", "malformed_file", "deep_file", "undecodable_file",
     "directory", "unreadable", "name_too_long", "embedded_null"}

\* What json.loads makes of the schema argument itself.
InlineStates == {"json", "not_json", "too_deep"}

\* {"type": "array", "items": {"type": "integer"}}
ExampleSchema ==
    JDict(<<Entry("type", JStr("array")),
            Entry("items", JDict(<<Entry("type", JStr("integer"))>>))>>)
\* {"type": "array", "maxItems": "x"}
BadBoundSchema ==
    JDict(<<Entry("type", JStr("array")), Entry("maxItems", JStr("x"))>>)
\* {"type": "null"}
NullSchema == JDict(<<Entry("type", JStr("null"))>>)
Docs == {ExampleSchema, NullSchema, BadBoundSchema}

\* How many distinct instances the strategy of a schema can yield: null is
\* the only instance of {"type": "null"}; arrays of integers are many.
SpaceOf(doc) == IF doc = NullSchema THEN 1 ELSE MaxSpace

\* What becomes of subprocess.run([script, 'testcase.json'], ...): the child
\* runs to its exit and its output decodes; the script cannot be started
\* (not found, not executable); or its output is not UTF-8 text.
ScriptStates == {"completes", "cannot_start", "output_not_utf8"}

\* The command line and the environment of one run:
\*   path         what is at the path the schema argument names
\*   inline       what the schema argument is as a JSON text
\*   doc          the JSON document the file or the argument holds
\*   seed, script whether --seed and --script are given
\*   num          --num
\*   space        how many distinct instances the strategy can yield
\*   bad          the instances on which the script exits non-zero
\*   script_state what becomes of the call of subprocess.run
\*   strategy_ok  from_schema accepts the limited schema
Configs ==
    {c \in [path : PathStates, inline : InlineStates, doc : Docs, seed : BOOLEAN,
            script : BOOLEAN, num : 0..MaxNum, space : 1..MaxSpace,
            bad : SUBSET (1..MaxSpace), script_state : ScriptStates,
            strategy_ok : BOOLEAN] :
        /\ c.space = SpaceOf(c.doc)
        /\ ~c.script => (c.bad = {} /\ c.script_state = "completes")}

IdleConfig ==
    [path |-> "absent", inline |-> "not_json", doc |-> ExampleSchema, seed |-> FALSE,
     script |-> FALSE, num |-> 0, space |-> 1, bad |-> {},
     script_state |-> "completes", strategy_ok |-> FALSE]

\* open(schema_input, 'r'): the file object, or the error it raises
OpenResult(path) ==
    CASE path \in {"valid_file", "malformed_file", "deep_file", "undecodable_file"}
            -> "opened"
      [] path = "absent" -> "FileNotFoundError"
      [] path = "directory" -> "IsADirectoryError"
      [] path = "unreadable" -> "PermissionError"
      [] path = "name_too_long" -> "OSError"
      [] path = "embedded_null" -> "ValueError: embedded null byte"

Returned(from) == [raised |-> "", from |-> from]
Raised(e) == [raised |-> e, from |-> ""]
InvalidSchema == "ValueError: Invalid schema"

\* json.load(f) on the opened file: "" when it returns the document
LoadFile(path) ==
    CASE path = "valid_file" -> ""
      [] path = "malformed_file" -> "JSONDecodeError"
      [] path = "deep_file" -> "RecursionError"
      [] path = "undecodable_file" -> "UnicodeDecodeError"

\* json.loads(schema_input): "" when it returns the document
LoadsInline(inline) ==
    CASE inline = "json" -> ""
      [] inline = "not_json" -> "JSONDecodeError"
      [] inline = "too_deep" -> "RecursionError"

\* load_schema: only FileNotFoundError from the outer try is handled, and
\* only JSONDecodeError from json.loads is turned into the ValueError;
\* every other error leaves the function as it is.
load_schema(path, inline) ==
    LET o == OpenResult(path) IN
    IF o = "opened" THEN
        IF LoadFile(path) = "" THEN Returned("file") ELSE Raised(LoadFile(path))
    ELSE IF o = "FileNotFoundError" THEN
        IF LoadsInline(inline) = "" THEN Returned("inline")
        ELSE IF LoadsInline(inline) = "JSONDecodeError" THEN Raised(InvalidSchema)
        ELSE Raised(LoadsInline(inline))
    ELSE Raised(o)

\* json.JSONDecodeError and UnicodeDecodeError derive from ValueError; the
\* OSErrors and RecursionError do not.
IsValueError(e) ==
    e \in {InvalidSchema, "JSONDecodeError", "UnicodeDecodeError",
           "ValueError: embedded null byte"}

\* result.returncode != 0
ScriptFailed(rc) == rc # 0

MinOf(a, b) == IF a <= b THEN a ELSE b

VARIABLES runs, cfg, proc, testcase

cvars == <<runs, cfg, proc, testcase>>
vars == <<tree, schema, once, twice, stage, runs, cfg, proc, testcase>>

\* The state of one run:
\*   pc            where main stands
\*   schema, limited_schema   the variables of those names
\*   count         calls of the decorated function (instances generated)
\*   printed       "Generated instance" lines of generate_json_instances
\*   written       completed writes of testcase.json (with blocks left)
\*   pos           the offset of the open descriptor of testcase.json: how
\*                 many units of cur this run has written to the file
\*   invoked       script invocations
\*   cur           the instance of the current call
\*   child         argv of the running subprocess
\*   exit_status   -1 while running
\*   diag          what reached stderr: "Error" from main's handlers,
\*                 "Traceback" from the interpreter
\*   error, raised_in   the exception that ended the run and its origin
NewProc(start) ==
    [pc |-> start, schema |-> Unset, limited_schema |-> Unset,
     count |-> 0, printed |-> 0, written |-> 0, invoked |-> 0, cur |-> 0,
     pos |-> 0, child |-> <<>>, exit_status |-> -1, diag |-> "", error |-> "", raised_in |-> ""]

\* testcase.json as a reader finds it: data is its content, a sequence of
\* units <<inst, k>>, the k-th unit of the text of instance inst, or Nul,
\* the filling of a hole; writer is the run that opened or wrote it last,
\* 0 before the first run creates it.
Nul == <<0, 0>>
NoFile == [writer |-> 0, data |-> <<>>]

\* the length of the text json.dump produces for an instance, in units
Size(inst) == inst

\* the complete text of an instance
Whole(inst) == [k \in 1..Size(inst) |-> <<inst, k>>]

\* write(2) of units from+1 .. from+n of instance inst through a descriptor
\* whose offset is from: a file that has been truncated below the offset
\* is filled up with Nul, and what lies beyond the written units stays.
WriteAt(data, from, inst, n) ==
    LET len == IF Len(data) > from + n THEN Len(data) ELSE from + n
    IN  [k \in 1..len |->
            IF k > from /\ k <= from + n THEN <<inst, k>>
            ELSE IF k <= Len(data) THEN data[k]
            ELSE Nul]

LimiterIdle ==
    /\ tree = Unset
    /\ schema = Unset
    /\ once = Unset
    /\ twice = Unset
    /\ stage = "off"

CliIdle ==
    /\ runs = {}
    /\ cfg = [r \in Procs |-> IdleConfig]
    /\ proc = [r \in Procs |-> NewProc("off")]
    /\ testcase = NoFile

\* sys.exit(1) in one of main's handlers
Caught(p, e, origin) ==
    [p EXCEPT !.pc = "exited", !.exit_status = 1, !.diag = "Error",
              !.error = e, !.raised_in = origin]
\* an exception no handler of main covers: traceback, status 1
Uncaught(p, e, origin) ==
    [p EXCEPT !.pc = "exited", !.exit_status = 1, !.diag = "Traceback",
              !.error = e, !.raised_in = origin]

\* main, lines 98-102
LoadSchema(r) ==
    /\ r \in runs
    /\ proc[r].pc = "load"
    /\ LET res == load_schema(cfg[r].path, cfg[r].inline) IN
       proc' = [proc EXCEPT ![r] =
           IF res.raised = "" THEN [@ EXCEPT !.pc = "seed", !.schema = cfg[r].doc]
           ELSE IF IsValueError(res.raised) THEN Caught(@, res.raised, "load_schema")
           ELSE Uncaught(@, res.raised, "load_schema")]
    /\ UNCHANGED <<runs, cfg, testcase, lvars>>

\* main, lines 104-106.  st.random is an attribute lookup on the strategies
\* package; whether it resolves depends on the installed library, so both
\* outcomes are allowed.  The statement stands outside every try.
SetSeed(r) ==
    /\ r \in runs
    /\ proc[r].pc = "seed"
    /\ \E ok \in (IF cfg[r].seed THEN BOOLEAN ELSE {TRUE}) :
          proc' = [proc EXCEPT ![r] =
              IF ok THEN [@ EXCEPT !.pc = "start"]
              ELSE Uncaught(@, "AttributeError", "seed")]
    /\ UNCHANGED <<runs, cfg, testcase, lvars>>

\* The head of run_test_script / generate_json_instances, up to the call of
\* the decorated function: limit_complexity, from_schema, settings.  The
\* limiter rewrites main's schema in place, also when it raises part-way.
StartRun(r) ==
    /\ r \in runs
    /\ proc[r].pc = "start"
    /\ LET lim == limit_complexity(proc[r].schema)
           origin == IF cfg[r].script THEN "run_test_script"
                     ELSE "generate_json_instances"
       IN proc' = [proc EXCEPT ![r] =
           IF lim = TypeError THEN
               Caught([@ EXCEPT !.schema = ArgumentAfter(proc[r].schema)],
                      "TypeError", origin)
           ELSE IF ~cfg[r].strategy_ok THEN
               Caught([@ EXCEPT !.schema = lim, !.limited_schema = lim],
                      "InvalidSchema", origin)
           ELSE IF cfg[r].num < 1 THEN
               Caught([@ EXCEPT !.schema = lim, !.limited_schema = lim],
                      "InvalidArgument", origin)
           ELSE [@ EXCEPT !.schema = lim, !.limited_schema = lim,
                          !.pc = "engine"]]
    /\ UNCHANGED <<runs, cfg, testcase, lvars>>

\* max_examples = num is a maximum: the engine stops earlier when the
\* strategy has no further instance to offer.
MaxExamples(c) == MinOf(c.num, c.space)

\* One call of the decorated function by the engine.
\* print_instance prints the instance; test_instance goes on to write it.
Generate(r) ==
    /\ r \in runs
    /\ proc[r].pc = "engine"
    /\ proc[r].count < MaxExamples(cfg[r])
    /\ \E inst \in 1..cfg[r].space :
          proc' = [proc EXCEPT ![r] =
              IF cfg[r].script
              THEN [@ EXCEPT !.cur = inst, !.count = @ + 1, !.pc = "write"]
              ELSE [@ EXCEPT !.cur = inst, !.count = @ + 1, !.printed = @ + 1]]
    /\ UNCHANGED <<runs, cfg, testcase, lvars>>

\* The engine returns without a failure; main returns; status 0.
Finish(r) ==
    /\ r \in runs
    /\ proc[r].pc = "engine"
    /\ proc[r].count = MaxExamples(cfg[r])
    /\ proc' = [proc EXCEPT ![r] = [@ EXCEPT !.pc = "exited", !.exit_status = 0]]
    /\ UNCHANGED <<runs, cfg, testcase, lvars>>

\* open('testcase.json', 'w'): the file is truncated at once, whatever it
\* held and whoever wrote it; the new descriptor stands at offset 0.
OpenTestcase(r) ==
    /\ r \in runs
    /\ proc[r].pc = "write"
    /\ testcase' = [writer |-> r, data |-> <<>>]
    /\ proc' = [proc EXCEPT ![r] = [@ EXCEPT !.pos = 0, !.pc = "dump"]]
    /\ UNCHANGED <<runs, cfg, lvars>>

\* One write to the file in the course of json.dump(instance, f): the
\* buffer of f has filled, or a piece larger than the buffer is passed
\* through.  It lands at the offset of this run's own descriptor, wherever
\* another run has left the file in the meantime.
DumpWrite(r) ==
    /\ r \in runs
    /\ proc[r].pc = "dump"
    /\ proc[r].pos < Size(proc[r].cur)
    /\ \E n \in 1..(Size(proc[r].cur) - proc[r].pos) :
          /\ testcase' = [writer |-> r,
                          data |-> WriteAt(testcase.data, proc[r].pos, proc[r].cur, n)]
          /\ proc' = [proc EXCEPT ![r] = [@ EXCEPT !.pos = @ + n]]
    /\ UNCHANGED <<runs, cfg, lvars>>

\* json.dump returns; what has not been written is in the buffer of f.
DumpReturn(r) ==
    /\ r \in runs
    /\ proc[r].pc = "dump"
    /\ proc' = [proc EXCEPT ![r] = [@ EXCEPT !.pc = "close"]]
    /\ UNCHANGED <<runs, cfg, testcase, lvars>>

\* One write to the file in the course of leaving the with block: closing
\* f flushes what is left in the buffer, in one write or in several, each
\* at the offset of this run's own descriptor.
CloseWrite(r) ==
    /\ r \in runs
    /\ proc[r].pc = "close"
    /\ proc[r].pos < Size(proc[r].cur)
    /\ \E n \in 1..(Size(proc[r].cur) - proc[r].pos) :
          /\ testcase' = [writer |-> r,
                          data |-> WriteAt(testcase.data, proc[r].pos, proc[r].cur, n)]
          /\ proc' = [proc EXCEPT ![r] = [@ EXCEPT !.pos = @ + n]]
    /\ UNCHANGED <<runs, cfg, lvars>>

\* the with block left without the buffer reaching the file
CloseTestcaseUnflushed(r) ==
    /\ r \in runs
    /\ proc[r].pc = "close"
    /\ proc' = [proc EXCEPT ![r] = [@ EXCEPT !.written = @ + 1, !.pos = 0, !.pc = "spawn"]]
    /\ UNCHANGED <<runs, cfg, testcase, lvars>>

\* The with block is left: everything has been written and the descriptor
\* is closed.
CloseTestcase(r) ==
    /\ r \in runs
    /\ proc[r].pc = "close"
    /\ proc[r].pos = Size(proc[r].cur)
    /\ proc' = [proc EXCEPT ![r] = [@ EXCEPT !.written = @ + 1, !.pos = 0, !.pc = "spawn"]]
    /\ UNCHANGED <<runs, cfg, testcase, lvars>>

\* The exit codes the script can give on what it finds in the file: on the
\* complete text of an instance the one its check of that instance gives,
\* on anything else whatever the script does with a file that is no JSON
\* document.
ExitCodes(file, c) ==
    IF \E i \in 1..MaxSpace : file.data = Whole(i)
    THEN {IF (CHOOSE i \in 1..MaxSpace : file.data = Whole(i)) \in c.bad
          THEN 1 ELSE 0}
    ELSE {0, 1}

\* subprocess.run([script, 'testcase.json'], ...) starts the child, or
\* raises the OSError of a script that cannot be started; the error leaves
\* test_instance and reaches the handler of main.
InvokeScript(r) ==
    /\ r \in runs
    /\ proc[r].pc = "spawn"
    /\ proc' = [proc EXCEPT ![r] =
          IF cfg[r].script_state = "cannot_start"
          THEN Caught(@, "OSError", "run_test_script")
          ELSE [@ EXCEPT !.child = <<"script", "testcase.json">>,
                         !.invoked = @ + 1, !.pc = "script"]]
    /\ UNCHANGED <<runs, cfg, testcase, lvars>>

\* The child exits, with the code its reading of the file gives, and
\* subprocess.run returns, or raises UnicodeDecodeError when the captured
\* output is not text, whatever the exit code.  test_instance raises
\* AssertionError on a non-zero code.  An error raised in test_instance
\* leaves the call of line 85 and reaches the handler of main.
ScriptExit(r) ==
    /\ r \in runs
    /\ proc[r].pc = "script"
    /\ \E rc \in ExitCodes(testcase, cfg[r]) :
       LET p == [proc[r] EXCEPT !.child = <<>>]
       IN proc' = [proc EXCEPT ![r] =
           IF cfg[r].script_state = "output_not_utf8" THEN
               Caught(p, "UnicodeDecodeError", "run_test_script")
           ELSE IF ScriptFailed(rc) THEN
               Caught(p, "AssertionError", "run_test_script")
           ELSE [p EXCEPT !.pc = "engine"]]
    /\ UNCHANGED <<runs, cfg, testcase, lvars>>

Next ==
    \/ \E r \in Procs : LoadSchema(r)
    \/ \E r \in Procs : SetSeed(r)
    \/ \E r \in Procs : StartRun(r)
    \/ \E r \in Procs : Generate(r)
    \/ \E r \in Procs : Finish(r)
    \/ \E r \in Procs : OpenTestcase(r)
    \/ \E r \in Procs : DumpWrite(r)
    \/ \E r \in Procs : DumpReturn(r)
    \/ \E r \in Procs : CloseWrite(r)
    \/ \E r \in Procs : CloseTestcase(r)
    \/ \E r \in Procs : InvokeScript(r)
    \/ \E r \in Procs : ScriptExit(r)

\* One run of the program, over every command line and environment.
Init ==
    /\ LimiterIdle
    /\ runs = {1}
    /\ cfg \in {[r \in Procs |-> IF r = 1 THEN c ELSE IdleConfig] : c \in Configs}
    /\ proc = [r \in Procs |-> IF r = 1 THEN NewProc("load") ELSE NewProc("off")]
    /\ testcase = NoFile

Spec == Init /\ [][Next]_vars

\* One or two script-mode runs of the same command line in one directory.
SharedConfigs ==
    {c \in Configs :
        /\ c.path = "valid_file" /\ c.inline = "not_json" /\ c.doc = ExampleSchema
        /\ c.seed = FALSE /\ c.script /\ c.strategy_ok
        /\ c.script_state = "completes"
        /\ c.num = MaxNum /\ c.bad \in {{}, {1}}}

ConcurrentInit ==
    /\ LimiterIdle
    /\ runs \in {{1}, Procs}
    /\ cfg \in {[r \in Procs |-> IF r \in runs THEN c ELSE IdleConfig] : c \in SharedConfigs}
    /\ proc = [r \in Procs |-> IF r \in runs THEN NewProc("load") ELSE NewProc("off")]
    /\ testcase = NoFile

SpecConcurrent == ConcurrentInit /\ [][Next]_vars

\* The limiter applied to a schema tree, and again to its own output.
LimiterInit ==
    /\ CliIdle
    /\ tree \in Trees(MaxDepth)
    /\ schema = tree
    /\ once = Unset
    /\ twice = Unset
    /\ stage = "input"

\* limited_schema = limit_complexity(schema): the call returns (or raises)
\* and leaves its argument rewritten in place.
Limit ==
    /\ stage = "input"
    /\ once' = limit_complexity(schema)
    /\ schema' = ArgumentAfter(schema)
    /\ stage' = "limited"
    /\ UNCHANGED <<tree, twice, cvars>>

\* The limiter applied to what it returned.  The first result is the
\* argument itself (a dict) or a new list of the argument's own elements, so
\* the second call works on the object graph schema already holds.
LimitAgain ==
    /\ stage = "limited"
    /\ once # TypeError
    /\ twice' = limit_complexity(schema)
    /\ schema' = ArgumentAfter(schema)
    /\ stage' = "relimited"
    /\ UNCHANGED <<tree, once, cvars>>

LimiterNext == Limit \/ LimitAgain

SpecLimiter == LimiterInit /\ [][LimiterNext]_vars

(***************************************************************************)
(* Properties of the limiter.                                              *)
(***************************************************************************)
IsContainer(v) == v.kind \in {"dict", "list"}
TypeOf(d) == Get(d, "type", Unset)
HasType(d, t) == TypeOf(d) = JStr(t)
HasScalarType(d) == \E t \in {"string", "number", "integer"} : HasType(d, t)
\* v <= c for a bound v and an int c; false of NaN
AtMost(v, c) ==
    \/ v.kind \in {"num", "bool"} /\ v.num <= c
    \/ v.kind = "inf" /\ v.num < 0
NumAtMost(d, k, c) == HasKey(d, k) /\ AtMost(Get(d, k, Unset), c)

\* the bounds a single mapping must carry for its own "type"
Capped(d) ==
    /\ HasType(d, "array") => NumAtMost(d, "maxItems", 5)
    /\ HasType(d, "object") => NumAtMost(d, "maxProperties", 5)
    /\ HasScalarType(d) => NumAtMost(d, "maxLength", 20)

RECURSIVE AllCapped(_)
AllCapped(v) ==
    IF v.kind = "dict" THEN
        /\ Capped(v.items)
        /\ \A i \in 1..Len(v.items) : AllCapped(v.items[i].val)
    ELSE IF v.kind = "list" THEN \A i \in 1..Len(v.items) : AllCapped(v.items[i])
    ELSE TRUE

RECURSIVE Depth(_)
Depth(v) ==
    IF v.kind = "dict" THEN
        1 + (IF \E i \in 1..Len(v.items) : IsContainer(v.items[i].val)
             THEN Depth(v.items[CHOOSE i \in 1..Len(v.items) : IsContainer(v.items[i].val)].val)
             ELSE 0)
    ELSE IF v.kind = "list" THEN
        1 + (IF \E i \in 1..Len(v.items) : IsContainer(v.items[i])
             THEN Depth(v.items[CHOOSE i \in 1..Len(v.items) : IsContainer(v.items[i])])
             ELSE 0)
    ELSE 0

\* C1: applying limit_complexity to its own output returns that output
\* unchanged, as a whole tree.
C1_Idempotent == stage = "relimited" => twice = once

\* a nested tree that the first application changed below the root
C1_Witness ==
    /\ stage = "relimited"
    /\ Depth(tree) = 3
    /\ once # tree
    /\ tree.kind = "dict" /\ ~HasKey(tree.items, "type")
    /\ twice = once

\* C2: in the output every mapping at any depth carries the bound of its
\* type: array maxItems <= 5, object maxProperties <= 5, string, number and
\* integer maxLength <= 20.
C2_AllCapped == (stage # "input" /\ once # TypeError) => AllCapped(once)

Ceil(k) == IF k = "maxLength" THEN 20 ELSE 5
BoundKeyOf(d) ==
    IF HasType(d, "array") THEN "maxItems"
    ELSE IF HasType(d, "object") THEN "maxProperties"
    ELSE IF HasScalarType(d) THEN "maxLength"
    ELSE ""

\* the bound e lies above the int c; false of NaN, which lies above nothing
Exceeds(e, c) ==
    \/ e.kind \in {"num", "bool"} /\ e.num > c
    \/ e.kind = "inf" /\ e.num > 0

\* The output bound of one typed mapping.  With a bound in the input: the
\* ceiling when the bound lies above it, otherwise the bound itself, which
\* is min(existing, ceiling) and never more than the existing bound.
\* Without one: the ceiling.
BoundRule(din, dout) ==
    LET k == BoundKeyOf(din)
        e == Get(din, k, Unset)
        o == Get(dout, k, Unset)
    IN  k # "" =>
        /\ HasKey(dout, k)
        /\ IF HasKey(din, k)
           THEN /\ Exceeds(e, Ceil(k)) => o = JNum(Ceil(k))
                /\ ~Exceeds(e, Ceil(k)) => o = e
                /\ AtMost(e, Ceil(k)) => o = e
           ELSE o = JNum(Ceil(k))

RECURSIVE AllBoundRule(_, _)
AllBoundRule(vin, vout) ==
    IF vin.kind = "dict" THEN
        /\ vout.kind = "dict"
        /\ BoundRule(vin.items, vout.items)
        /\ \A i \in 1..Len(vin.items) :
              (IsContainer(vin.items[i].val) /\ vin.items[i].key # BoundKeyOf(vin.items)) =>
                  /\ HasKey(vout.items, vin.items[i].key)
                  /\ AllBoundRule(vin.items[i].val,
                                  Get(vout.items, vin.items[i].key, Unset))
    ELSE IF vin.kind = "list" THEN
        /\ vout.kind = "list"
        /\ Len(vout.items) = Len(vin.items)
        /\ \A i \in 1..Len(vin.items) : AllBoundRule(vin.items[i], vout.items[i])
    ELSE TRUE

\* C3: no existing bound is increased: every typed mapping's output bound
\* is min(existing, ceiling), the ceiling when the existing bound lies above
\* it and the existing bound itself otherwise, so a bound at or below the
\* ceiling keeps its value; it is exactly the ceiling when the input has
\* none.
C3_NeverIncreases == (stage # "input" /\ once # TypeError) => AllBoundRule(tree, once)

\* a nested string mapping whose bound 7 lies between the two ceilings and
\* is kept, under an array mapping that had no bound
C3_Witness ==
    /\ stage = "limited"
    /\ tree = JDict(<<Entry("type", JStr("array")),
                      Entry("items", JDict(<<Entry("type", JStr("string")),
                                             Entry("maxLength", JNum(7))>>))>>)
    /\ Get(once.items, "maxItems", Unset) = JNum(5)
    /\ Get(Get(once.items, "items", Unset).items, "maxLength", Unset) = JNum(7)

RECURSIVE Framed(_, _)
Framed(vin, vout) ==
    IF vin.kind = "dict" THEN
        /\ vout.kind = "dict"
        /\ \A i \in 1..Len(vin.items) :
              LET k == vin.items[i].key
                  v == vin.items[i].val
              IN  /\ HasKey(vout.items, k)
                  /\ k \notin BoundKeys =>
                        Framed(v, Get(vout.items, k, Unset))
        /\ \A j \in 1..Len(vout.items) :
              ~HasKey(vin.items, vout.items[j].key) =>
                  /\ vout.items[j].key \in BoundKeys
                  /\ \E t \in {"array", "object", "string", "number", "integer"} :
                        HasType(vin.items, t)
    ELSE IF vin.kind = "list" THEN
        /\ vout.kind = "list"
        /\ Len(vout.items) = Len(vin.items)
        /\ \A i \in 1..Len(vin.items) : Framed(vin.items[i], vout.items[i])
    ELSE vout = vin

\* C9: the output has the input's shape; no key is removed; scalars and
\* every key other than the three bound keys keep their values, nested
\* containers being rewritten by the same rule; a mapping gains a bound key
\* only when its own "type" is array, object, string, number or integer.
C9_Frame == (stage # "input" /\ once # TypeError) => Framed(tree, once)

\* a boolean-typed mapping in a sequence beside a scalar, under a typed
\* mapping that gains its bound
C9_Witness ==
    /\ stage = "limited"
    /\ tree = JDict(<<Entry("type", JStr("object")),
                      Entry("items", JList(<<JStr("array"),
                                             JDict(<<Entry("type", JStr("boolean"))>>)>>))>>)
    /\ once = JDict(<<Entry("type", JStr("object")),
                      Entry("items", JList(<<JStr("array"),
                                             JDict(<<Entry("type", JStr("boolean"))>>)>>)),
                      Entry("maxProperties", JNum(5))>>)

(***************************************************************************)
(* Properties of the command line program.                                 *)
(***************************************************************************)
\* the file is the complete text of inst, last written by run r
Holds(r, inst) == testcase = [writer |-> r, data |-> Whole(inst)]
Exited(r) == proc[r].pc = "exited"

\* C4: load_schema returns the file's JSON when the path opens and parses,
\* the argument's own JSON only when the file is not found, and whenever it
\* fails it fails with the "Invalid schema" ValueError and nothing else.
C4_LoaderContract ==
    \A r \in runs :
        proc[r].pc # "load" =>
            /\ (cfg[r].path = "valid_file") => proc[r].schema # Unset
            /\ (cfg[r].path = "absent" /\ cfg[r].inline = "json") => proc[r].schema # Unset
            /\ (proc[r].schema # Unset) =>
                  \/ cfg[r].path = "valid_file"
                  \/ cfg[r].path = "absent" /\ cfg[r].inline = "json"
            /\ (proc[r].raised_in = "load_schema") => proc[r].error = InvalidSchema

\* C5: a run exits 0 exactly when nothing raised, and every error of the
\* loader, the generator or the script runner is caught by a handler of
\* main, printed as "Error: ..." and turned into status 1.
C5_ExitAndCatch ==
    \A r \in runs :
        Exited(r) =>
            /\ (proc[r].exit_status = 0) <=> (proc[r].error = "")
            /\ proc[r].raised_in \in
                  {"load_schema", "generate_json_instances", "run_test_script"} =>
                      (proc[r].diag = "Error" /\ proc[r].exit_status = 1)

\* C7: a run that exits 0 made exactly --num calls: num printed lines
\* without a script, num script invocations with one.
C7_ExactlyNum ==
    \A r \in runs :
        (Exited(r) /\ proc[r].exit_status = 0) =>
            /\ proc[r].count = cfg[r].num
            /\ cfg[r].script => proc[r].invoked = cfg[r].num
            /\ ~cfg[r].script => proc[r].printed = cfg[r].num

ScriptRunning(r) == proc[r].pc = "script"

\* C8: in a single run, while the script runs the file holds the complete
\* instance of the current call, written by this run (the file was closed
\* before the script was started), and the script's only argument
\* is testcase.json; and no call of test_instance begins while a write or a
\* script invocation of the previous call is pending.
C8_WriteThenInvoke ==
    /\ [](\A r \in runs :
            ScriptRunning(r) =>
                /\ Holds(r, proc[r].cur)
                /\ proc[r].child = <<"script", "testcase.json">>
                /\ proc[r].written = proc[r].invoked
                /\ proc[r].invoked = proc[r].count)
    /\ [][\A r \in runs :
            proc'[r].count # proc[r].count =>
                (proc[r].pc = "engine" /\ proc[r].child = <<>>
                    /\ (cfg[r].script => proc[r].invoked = proc[r].count))]_vars

\* the script running on the second instance of a run, the file having
\* been overwritten
C8_Witness ==
    \E r \in runs :
        /\ ScriptRunning(r)
        /\ proc[r].count = 2
        /\ proc[r].written = 2
        /\ Holds(r, 2)

\* C10: a script is invoked while the file holds an instance written by
\* another run, or anything else than the complete instance of its own
\* run's current call, only when two runs share the directory; the script
\* of a single run never finds such a file.
C10_ForeignFileNeedsTwoRuns ==
    \A r \in runs :
        (ScriptRunning(r) /\ ~Holds(r, proc[r].cur))
            => Cardinality(runs) = 2

\* two interleaved runs: the script of one is running on an instance the
\* other wrote, which differs from its own
C10_Witness ==
    \E r \in runs :
        /\ ScriptRunning(r)
        /\ testcase.writer \in runs \ {r}
        /\ \E i \in 1..MaxSpace : i # proc[r].cur /\ testcase.data = Whole(i)

====
